---- MODULE Spec2Model ----
(***************************************************************************)
(* Fantasy climbing league: the roster / captaincy change logs, the write  *)
(* paths that append to them (updateRoster, setCaptain, the two            *)
(* createTransfer implementations) and the readers that score events from  *)
(* them (calculate-leaderboard, get-team-breakdown, the client API views). *)
(*                                                                         *)
(* Instants are integers 1..MaxTime; 0 (Null) stands for SQL NULL / a JS   *)
(* falsy id.  Multipliers are kept in hundredths (1.2 is 120).             *)
(***************************************************************************)
EXTENDS Integers, Sequences, FiniteSets, TLC

\* ------------------------------------------------------------------ bounds
NumClimbers == 3
MaxTime == 4
MaxRows == 3
MaxHist == 1
MaxTransfers == 1
TeamSize == 2
TransfersPerEvent == 1

Null == 0
Climbers == 1..NumClimbers
Team == "t1"
Events == {1, 2}
EventDate == <<2, 4>>
\* leagues.captain_multiplier values of the leagues considered, in hundredths
Multipliers == {120, 140}

\* event_results rows (unique per event and climber); climbers without a row
\* did not place
EventResults ==
  { [event_id |-> 1, climber_id |-> 1, rank |-> 1],
    [event_id |-> 1, climber_id |-> 2, rank |-> 3],
    [event_id |-> 1, climber_id |-> 3, rank |-> 45],
    [event_id |-> 2, climber_id |-> 1, rank |-> 3],
    [event_id |-> 2, climber_id |-> 2, rank |-> 85] }

\* athlete_rankings rows of the league's discipline and gender
AthleteRankings ==
  { [climber_id |-> 1, rank |-> 1],
    [climber_id |-> 2, rank |-> 2] }

\* leagues.tier_config.tiers
TierConfig ==
  << [name |-> "S", max_rank |-> 2, max_per_team |-> 1],
     [name |-> "B", max_rank |-> Null, max_per_team |-> Null] >>

VARIABLES
  now,              \* the wall clock read by new Date()
  event_status,     \* events.status
  team_roster,      \* rows of team_roster, in insertion order
  captain_history,  \* rows of captain_history, in insertion order
  team_transfers,   \* rows of team_transfers, in insertion order
  resp,             \* outcome of the last request
  pc,               \* position of each in-flight request handler
  preq,             \* the request each handler is serving
  psnap,            \* currentRoster as read by the handler
  pnow,             \* the instant the handler read
  selectedRoster,   \* TeamSelection's selectedRoster state
  renderedRoster,   \* selectedRoster as the handlers of the last render see it
  tierConfig,       \* CreateLeague's tierConfig state
  classified,       \* the last tier lookup: the rank asked and the name returned
  events            \* TransferSection's events state: the events as loaded

vars == <<now, event_status, team_roster, captain_history,
          team_transfers, resp, pc, preq, psnap, pnow,
          selectedRoster, renderedRoster, tierConfig, classified, events>>
dbvars == <<team_roster, captain_history, team_transfers>>
procvars == <<pc, preq, psnap, pnow>>
uivars == <<selectedRoster, renderedRoster>>
tiervars == <<tierConfig, classified>>

Procs == {"p1", "p2"}

\* ------------------------------------------------------- table primitives
\* .update({ removed_at: now }).eq(team_id).eq(climber_id).is(removed_at, null)
RosterClose(rows, team, climber, t) ==
  [i \in DOMAIN rows |->
     IF rows[i].team_id = team /\ rows[i].climber_id = climber
        /\ rows[i].removed_at = Null
     THEN [rows[i] EXCEPT !.removed_at = t]
     ELSE rows[i]]

\* a variant that reopens the athlete's earlier entry when there is one
RosterUpsert(rows, team, climber, isCaptain, t) ==
  LET closed == { i \in DOMAIN rows : /\ rows[i].team_id = team
                                      /\ rows[i].climber_id = climber
                                      /\ rows[i].removed_at # Null }
  IN IF closed = {}
     THEN Append(rows, [team_id |-> team, climber_id |-> climber,
                        is_captain |-> isCaptain, added_at |-> t,
                        removed_at |-> Null])
     ELSE [i \in DOMAIN rows |->
             IF i = CHOOSE j \in closed : \A k \in closed : j <= k
             THEN [rows[i] EXCEPT !.removed_at = Null, !.is_captain = isCaptain]
             ELSE rows[i]]

\* .insert({ team_id, climber_id, is_captain, added_at: now })
RosterInsert(rows, team, climber, isCaptain, t) ==
  Append(rows, [team_id |-> team, climber_id |-> climber,
                is_captain |-> isCaptain, added_at |-> t,
                removed_at |-> Null])

\* .update({ is_captain: false }).eq(team_id).is(removed_at, null)
RosterClearCaptain(rows, team) ==
  [i \in DOMAIN rows |->
     IF rows[i].team_id = team /\ rows[i].removed_at = Null
     THEN [rows[i] EXCEPT !.is_captain = FALSE]
     ELSE rows[i]]

\* .update({ is_captain: flag }).eq(team_id).eq(climber_id).is(removed_at, null)
RosterSetFlag(rows, team, climber, flag) ==
  [i \in DOMAIN rows |->
     IF rows[i].team_id = team /\ rows[i].climber_id = climber
        /\ rows[i].removed_at = Null
     THEN [rows[i] EXCEPT !.is_captain = flag]
     ELSE rows[i]]

\* captain_history .update({ replaced_at: now }).eq(team_id).is(replaced_at, null)
HistoryClose(rows, team, t) ==
  [i \in DOMAIN rows |->
     IF rows[i].team_id = team /\ rows[i].replaced_at = Null
     THEN [rows[i] EXCEPT !.replaced_at = t]
     ELSE rows[i]]

\* captain_history .insert({ team_id, climber_id, set_at: now })
HistoryInsert(rows, team, climber, t) ==
  Append(rows, [team_id |-> team, climber_id |-> climber,
                set_at |-> t, replaced_at |-> Null])

\* team_transfers .insert({...}); the row violates
\* UNIQUE(team_id, after_event_id, climber_out_id) when one exists already
TransferConflict(rows, team, req) ==
  \E i \in DOMAIN rows :
     /\ rows[i].team_id = team
     /\ rows[i].after_event_id = req.after_event_id
     /\ rows[i].climber_out_id = req.climber_out_id

TransferInsert(rows, team, req, t) ==
  Append(rows, [team_id |-> team, after_event_id |-> req.after_event_id,
                climber_out_id |-> req.climber_out_id,
                climber_in_id |-> req.climber_in_id, created_at |-> t])

\* .from("team_roster").select("climber_id, is_captain")
\*    .eq(team_id).is(removed_at, null)
CurrentRoster(rows, team) ==
  SelectSeq(rows, LAMBDA r : r.team_id = team /\ r.removed_at = Null)

SeqIds(rows) == { rows[i].climber_id : i \in DOMAIN rows }

\* currentRoster?.find((r) => r.climber_id === id): the first match
FindEntry(rows, climber) ==
  LET hits == { i \in DOMAIN rows : rows[i].climber_id = climber }
  IN IF hits = {} THEN Null
     ELSE CHOOSE i \in hits : \A j \in hits : i <= j


\* ------------------------------------------------ create-transfer (edge)
\* the requests TransferSection.handleSubmitTransfer sends: the replacement
\* is picked among the athletes not shown on the roster, the new captain
\* among the replacement and the roster without the outgoing athlete
TransferRequests ==
  { r \in [after_event_id : Events, climber_out_id : Climbers,
           climber_in_id : Climbers, new_captain_id : {Null} \cup Climbers] :
      r.climber_in_id # r.climber_out_id /\ r.new_captain_id # r.climber_out_id }

\* count of team_transfers rows of the team and event with reverted_at null
\* (no code path of the repository sets reverted_at)
ExistingTransfers(transfers, team, eventId) ==
  Cardinality({ i \in DOMAIN transfers :
                  /\ transfers[i].team_id = team
                  /\ transfers[i].after_event_id = eventId })

\* removedEntry?.is_captain ?? false
EdgeWasCaptain(snap, req) ==
  LET i == FindEntry(snap, req.climber_out_id)
  IN i # Null /\ snap[i].is_captain

\* new_captain_id || climber_in_id
EdgeCaptainId(req) ==
  IF req.new_captain_id # Null THEN req.new_captain_id ELSE req.climber_in_id

\* if (new_captain_id || wasCaptain)
EdgeChangesCaptain(snap, req) ==
  req.new_captain_id # Null \/ EdgeWasCaptain(snap, req)

\* the validation of the request against the rows read: the response of the
\* first failing check, or "ok"
EdgeValidate(transfers, snap, req) ==
  IF ExistingTransfers(transfers, Team, req.after_event_id) >= TransfersPerEvent
  THEN "transfer_limit"
  ELSE IF req.climber_out_id \notin SeqIds(snap) THEN "not_in_roster"
  ELSE IF req.climber_in_id \in SeqIds(snap) THEN "already_in_roster"
  ELSE "ok"

\* a variant that deletes the outgoing athlete's open entry instead of
\* closing it
EdgeApplyRosterDelete(roster, snap, req, t) ==
  RosterInsert(SelectSeq(roster, LAMBDA r : ~(/\ r.team_id = Team
                                              /\ r.climber_id = req.climber_out_id
                                              /\ r.removed_at = Null)),
               Team, req.climber_in_id,
               EdgeWasCaptain(snap, req) /\ req.new_captain_id = Null, t)

\* the two team_roster writes of an accepted transfer
EdgeApplyRoster(roster, snap, req, t) ==
  RosterInsert(RosterClose(roster, Team, req.climber_out_id, t), Team,
               req.climber_in_id,
               EdgeWasCaptain(snap, req) /\ req.new_captain_id = Null, t)

\* the two is_captain updates of a captain change
EdgeApplyFlags(roster, req) ==
  RosterSetFlag(RosterClearCaptain(roster, Team), Team, EdgeCaptainId(req), TRUE)

\* the two captain_history writes of a captain change
EdgeApplyHistory(history, req, t) ==
  HistoryInsert(HistoryClose(history, Team, t), Team, EdgeCaptainId(req), t)

Outcome(roster, history, transfers, response) ==
  [roster |-> roster, history |-> history, transfers |-> transfers,
   resp |-> response]

\* a variant that records the transfer right after the allowance check,
\* before it validates the roster
EdgeCreateTransferEarlyInsert(roster, history, transfers, req, t) ==
  LET snap == CurrentRoster(roster, Team)
      v == EdgeValidate(transfers, snap, req)
  IN IF v = "transfer_limit" THEN Outcome(roster, history, transfers, v)
     ELSE IF TransferConflict(transfers, Team, req)
     THEN Outcome(roster, history, transfers, "error")
     ELSE IF v # "ok"
     THEN Outcome(roster, history, TransferInsert(transfers, Team, req, t), v)
     ELSE IF EdgeChangesCaptain(snap, req)
     THEN Outcome(EdgeApplyFlags(EdgeApplyRoster(roster, snap, req, t), req),
                  EdgeApplyHistory(history, req, t),
                  TransferInsert(transfers, Team, req, t), "ok")
     ELSE Outcome(EdgeApplyRoster(roster, snap, req, t), history,
                  TransferInsert(transfers, Team, req, t), "ok")

\* the whole handler run without interleaving
EdgeCreateTransferHandler(roster, history, transfers, req, t) ==
  LET snap == CurrentRoster(roster, Team)
      v == EdgeValidate(transfers, snap, req)
  IN IF v # "ok" THEN Outcome(roster, history, transfers, v)
     ELSE IF TransferConflict(transfers, Team, req)
     THEN Outcome(roster, history, transfers, "error")
     ELSE IF EdgeChangesCaptain(snap, req)
     THEN Outcome(EdgeApplyFlags(EdgeApplyRoster(roster, snap, req, t), req),
                  EdgeApplyHistory(history, req, t),
                  TransferInsert(transfers, Team, req, t), "ok")
     ELSE Outcome(EdgeApplyRoster(roster, snap, req, t), history,
                  TransferInsert(transfers, Team, req, t), "ok")

\* ------------------------------------------- teamsAPI.createTransfer
\* rankMap.get(climberId); Null when the climber has no ranking row
RankOf(climberId) ==
  IF \E r \in AthleteRankings : r.climber_id = climberId
  THEN (CHOOSE r \in AthleteRankings : r.climber_id = climberId).rank
  ELSE Null

LastTierName == IF Len(TierConfig) = 0 THEN "?" ELSE TierConfig[Len(TierConfig)].name

GetTier(climberId) ==
  LET rank == RankOf(climberId)
      hits == { i \in DOMAIN TierConfig :
                  TierConfig[i].max_rank = Null \/ rank <= TierConfig[i].max_rank }
  IN IF rank = Null THEN LastTierName
     ELSE IF hits = {} THEN LastTierName
     ELSE TierConfig[CHOOSE i \in hits : \A j \in hits : i <= j].name

\* [...currentRoster ids without climber_out_id, climber_in_id]
NewRosterIds(roster, req) ==
  LET cur == CurrentRoster(roster, Team)
      kept == SelectSeq(cur, LAMBDA r : r.climber_id # req.climber_out_id)
  IN Append([i \in DOMAIN kept |-> kept[i].climber_id], req.climber_in_id)

TierCount(ids, name) ==
  Cardinality({ i \in DOMAIN ids : GetTier(ids[i]) = name })

\* some tier with a cap holds more athletes than the cap
TierLimitViolated(ids) ==
  \E i \in DOMAIN TierConfig :
     /\ TierConfig[i].max_per_team # Null
     /\ TierCount(ids, TierConfig[i].name) > TierConfig[i].max_per_team

\* if (transferData.new_captain_id) { clear flags; flag the new captain }
ApiApplyFlags(roster, req) ==
  IF req.new_captain_id # Null
  THEN RosterSetFlag(RosterClearCaptain(roster, Team), Team,
                     req.new_captain_id, TRUE)
  ELSE roster

ApiCreateTransferHandler(roster, history, transfers, req, t) ==
  IF TierLimitViolated(NewRosterIds(roster, req))
  THEN Outcome(roster, history, transfers, "tier_limit")
  ELSE IF TransferConflict(transfers, Team, req)
  THEN Outcome(roster, history, transfers, "error")
  ELSE Outcome(ApiApplyFlags(
                 RosterInsert(RosterClose(roster, Team, req.climber_out_id, t),
                              Team, req.climber_in_id, FALSE, t), req),
               history, TransferInsert(transfers, Team, req, t), "ok")

\* ------------------------------------------------ teamsAPI.updateRoster
\* the roster lists TeamSelection.handleSave sends: not empty, at most
\* team_size athletes, one of them flagged captain
RECURSIVE SetToSeq(_)
SetToSeq(S) ==
  IF S = {} THEN << >>
  ELSE LET m == CHOOSE x \in S : \A y \in S : x <= y
       IN <<m>> \o SetToSeq(S \ {m})

RosterList(S, captain) ==
  LET ids == SetToSeq(S)
  IN [i \in DOMAIN ids |-> [climber_id |-> ids[i], is_captain |-> ids[i] = captain]]

\* for (const id of currentIds) if (!newIds.has(id)) close the open entry
RECURSIVE RemoveDropped(_, _, _)
RemoveDropped(rows, dropped, t) ==
  IF dropped = {} THEN rows
  ELSE LET id == CHOOSE x \in dropped : TRUE
       IN RemoveDropped(RosterClose(rows, Team, id, t), dropped \ {id}, t)

\* for (const entry of roster): insert the new, re-flag the kept
RECURSIVE AddOrUpdate(_, _, _, _, _)
AddOrUpdate(rows, list, i, currentIds, t) ==
  IF i > Len(list) THEN rows
  ELSE IF list[i].climber_id \notin currentIds
  THEN AddOrUpdate(RosterInsert(rows, Team, list[i].climber_id,
                                list[i].is_captain, t),
                   list, i + 1, currentIds, t)
  ELSE AddOrUpdate(RosterSetFlag(rows, Team, list[i].climber_id,
                                 list[i].is_captain),
                   list, i + 1, currentIds, t)

UpdateRosterHandler(roster, list, t) ==
  LET currentIds == SeqIds(CurrentRoster(roster, Team))
      newIds == SeqIds(list)
  IN AddOrUpdate(RemoveDropped(roster, currentIds \ newIds, t), list, 1,
                 currentIds, t)

\* --------------------------------------------------- teamsAPI.setCaptain
SetCaptainRoster(roster, climberId) ==
  RosterSetFlag(RosterClearCaptain(roster, Team), Team, climberId, TRUE)

SetCaptainHistory(history, climberId, t) ==
  HistoryInsert(HistoryClose(history, Team, t), Team, climberId, t)


\* ------------------------------------------------------------ points tables
\* calculate-leaderboard: IFSC_POINTS, ranks 1..80
IFSC_POINTS ==
  <<
     1000, 805, 690, 610, 545, 495, 455, 415, 380, 350,
     325, 300, 280, 260, 240, 220, 205, 185, 170, 155,
     145, 130, 120, 105, 95, 84, 73, 63, 56, 48,
     42, 37, 33, 30, 27, 24, 21, 19, 17, 15,
     14, 13, 12, 11, 11, 10, 9, 9, 8, 8,
     7, 7, 7, 6, 6, 6, 5, 5, 5, 4,
     4, 4, 4, 3, 3, 3, 3, 3, 2, 2,
     2, 2, 2, 2, 1, 1, 1, 1, 1, 1 >>

\* IFSC_POINTS[rank] ?? (rank > 80 ? 1 : 0)
getPointsForRank(rank) ==
  IF rank \in DOMAIN IFSC_POINTS THEN IFSC_POINTS[rank]
  ELSE IF rank > 80 THEN 1 ELSE 0

\* get-team-breakdown and the client API: the table stops at rank 40
IFSC_POINTS_40 == SubSeq(IFSC_POINTS, 1, 40)

\* IFSC_POINTS[rank] ?? (rank > 40 ? 0 : 0)   and   points[rank] ?? 0
getPointsForRank40(rank) ==
  IF rank \in DOMAIN IFSC_POINTS_40 THEN IFSC_POINTS_40[rank] ELSE 0

\* Math.floor(basePoints * multiplier) on IEEE-754 doubles, multiplier given
\* in hundredths.  The double nearest 1.4 lies below 1.4, and for the base
\* points 170, 325, 350 and 690 the rounded product stays below the integer
\* 1.4 * basePoints, so the floor is one less; for 1.0 and 1.2 the rounded
\* product of every base point of the table has the exact floor.
MathFloorProduct(basePoints, multiplier) ==
  IF multiplier = 140 /\ basePoints \in {170, 325, 350, 690}
  THEN (basePoints * multiplier) \div 100 - 1
  ELSE (basePoints * multiplier) \div 100

\* ------------------------------------------------- roster as of an instant
TeamRows(rows, team) == SelectSeq(rows, LAMBDA r : r.team_id = team)

\* a variant whose removal bound is inclusive
IsActiveAtInclusive(entry, eventDate) ==
  /\ entry.added_at <= eventDate
  /\ (entry.removed_at = Null \/ entry.removed_at >= eventDate)

\* addedAt <= eventDate && (!removedAt || removedAt > eventDate)
IsActiveAt(entry, eventDate) ==
  /\ entry.added_at <= eventDate
  /\ (entry.removed_at = Null \/ entry.removed_at > eventDate)

\* setAt <= eventDate && (!replacedAt || replacedAt > eventDate)
IsCaptainEntryAt(ch, eventDate) ==
  /\ ch.set_at <= eventDate
  /\ (ch.replaced_at = Null \/ ch.replaced_at > eventDate)

\* for (const entry of rosterEntries): activeClimberIds.push(...), and
\* currentCaptainId = the last active entry flagged is_captain
RECURSIVE ScanRoster(_, _, _, _, _)
ScanRoster(entries, i, eventDate, active, captain) ==
  IF i > Len(entries)
  THEN [activeClimberIds |-> active, currentCaptainId |-> captain]
  ELSE IF IsActiveAt(entries[i], eventDate)
  THEN ScanRoster(entries, i + 1, eventDate,
                  Append(active, entries[i].climber_id),
                  IF entries[i].is_captain THEN entries[i].climber_id
                  ELSE captain)
  ELSE ScanRoster(entries, i + 1, eventDate, active, captain)

\* a variant that never consults the captaincy entries
ScanHistoryFlagOnly(entries, i, eventDate, fallback) == fallback

\* for (const ch of captainHistory): the first entry covering the date
\* replaces the fallback, then break
RECURSIVE ScanHistory(_, _, _, _)
ScanHistory(entries, i, eventDate, fallback) ==
  IF i > Len(entries) THEN fallback
  ELSE IF IsCaptainEntryAt(entries[i], eventDate) THEN entries[i].climber_id
  ELSE ScanHistory(entries, i + 1, eventDate, fallback)

ActiveClimberIds(roster, team, eventDate) ==
  ScanRoster(TeamRows(roster, team), 1, eventDate, << >>, Null).activeClimberIds

CaptainAtEvent(roster, history, team, eventDate) ==
  ScanHistory(TeamRows(history, team), 1, eventDate,
              ScanRoster(TeamRows(roster, team), 1, eventDate, << >>, Null)
                .currentCaptainId)

SeqToSet(q) == { q[i] : i \in DOMAIN q }

\* event_results .eq(event_id).in(climber_id, ids)
ResultsFor(eventId, ids) ==
  { r \in EventResults : r.event_id = eventId /\ r.climber_id \in ids }

\* ---------------------------------------------------- calculate-leaderboard
\* for (const result of results) eventScore += Math.floor(basePoints * multiplier)
RECURSIVE LbSumResults(_, _, _)
LbSumResults(results, captain, mult) ==
  IF results = {} THEN 0
  ELSE LET r == CHOOSE x \in results : TRUE
       IN MathFloorProduct(getPointsForRank(r.rank),
                           IF r.climber_id = captain THEN mult ELSE 100)
          + LbSumResults(results \ {r}, captain, mult)

\* eventScores[eventId] of one team
LbEventScore(roster, history, team, eventId, mult) ==
  LET active == ActiveClimberIds(roster, team, EventDate[eventId])
  IN IF Len(active) = 0 THEN 0
     ELSE LbSumResults(ResultsFor(eventId, SeqToSet(active)),
                       CaptainAtEvent(roster, history, team, EventDate[eventId]),
                       mult)

\* ------------------------------------------------------- get-team-breakdown
\* a variant that lists the athletes of the event_results rows only
TbAthleteScoresOfResults(roster, history, team, eventId, mult) ==
  LET ids == SeqToSet(ActiveClimberIds(roster, team, EventDate[eventId]))
      captain == CaptainAtEvent(roster, history, team, EventDate[eventId])
  IN { [climber_id |-> r.climber_id, is_captain |-> (r.climber_id = captain),
        rank |-> r.rank, base_points |-> getPointsForRank40(r.rank),
        total_points |-> MathFloorProduct(getPointsForRank40(r.rank),
                                          IF r.climber_id = captain THEN mult
                                          ELSE 100)]
       : r \in ResultsFor(eventId, ids) }

\* athlete_scores of one event: one record per climbers row of the snapshot
TbAthleteScores(roster, history, team, eventId, mult) ==
  LET ids == SeqToSet(ActiveClimberIds(roster, team, EventDate[eventId]))
      captain == CaptainAtEvent(roster, history, team, EventDate[eventId])
      results == ResultsFor(eventId, ids)
      rankOf(c) == IF \E r \in results : r.climber_id = c
                   THEN (CHOOSE r \in results : r.climber_id = c).rank
                   ELSE Null
      base(c) == IF rankOf(c) # Null THEN getPointsForRank40(rankOf(c)) ELSE 0
  IN { [climber_id |-> c, is_captain |-> (c = captain), rank |-> rankOf(c),
        base_points |-> base(c),
        total_points |-> MathFloorProduct(base(c),
                                          IF c = captain THEN mult ELSE 100)]
       : c \in ids }

RECURSIVE SumTotalPoints(_)
SumTotalPoints(scores) ==
  IF scores = {} THEN 0
  ELSE LET a == CHOOSE x \in scores : TRUE
       IN a.total_points + SumTotalPoints(scores \ {a})

\* team_total of one event
TbTeamTotal(roster, history, team, eventId, mult) ==
  SumTotalPoints(TbAthleteScores(roster, history, team, eventId, mult))


\* ------------------------------------------------------ client API views
\* .from("team_roster").select(...).is("removed_at", null): the ids read
ApiClimberIds(roster, team) ==
  LET cur == CurrentRoster(roster, team)
  IN [i \in DOMAIN cur |-> cur[i].climber_id]

\* roster.find((r) => r.is_captain)?.climber_id
ApiCaptainId(roster, team) ==
  LET cur == CurrentRoster(roster, team)
      hits == { i \in DOMAIN cur : cur[i].is_captain }
  IN IF hits = {} THEN Null
     ELSE cur[CHOOSE i \in hits : \A j \in hits : i <= j].climber_id

RECURSIVE ApiSumResults(_, _, _)
ApiSumResults(results, captain, mult) ==
  IF results = {} THEN 0
  ELSE LET r == CHOOSE x \in results : TRUE
       IN MathFloorProduct(getPointsForRank40(r.rank),
                           IF r.climber_id = captain THEN mult ELSE 100)
          + ApiSumResults(results \ {r}, captain, mult)

\* leaderboardAPI.getByLeague: eventScores[eventId] of one team
ApiLbEventScore(roster, team, eventId, mult) ==
  ApiSumResults(ResultsFor(eventId, SeqToSet(ApiClimberIds(roster, team))),
                ApiCaptainId(roster, team), mult)

\* total_points of one athlete in the two client breakdowns
ApiAthletePoints(climberId, captain, eventId, mult) ==
  LET results == ResultsFor(eventId, {climberId})
      rank == IF results = {} THEN Null ELSE (CHOOSE r \in results : TRUE).rank
      basePoints == IF rank # Null THEN getPointsForRank40(rank) ELSE 0
  IN MathFloorProduct(basePoints, IF climberId = captain THEN mult ELSE 100)

\* teamsAPI.getEventBreakdown: climberIds.map(...) then reduce
RECURSIVE ApiSumList(_, _, _, _, _)
ApiSumList(ids, i, captain, eventId, mult) ==
  IF i > Len(ids) THEN 0
  ELSE ApiAthletePoints(ids[i], captain, eventId, mult)
       + ApiSumList(ids, i + 1, captain, eventId, mult)

ApiTeamBreakdownTotal(roster, team, eventId, mult) ==
  ApiSumList(ApiClimberIds(roster, team), 1, ApiCaptainId(roster, team),
             eventId, mult)

\* teamsAPI.getLeagueEventBreakdown: one athlete per climbers row
ApiLeagueBreakdownTotal(roster, team, eventId, mult) ==
  ApiSumList(SetToSeq(SeqToSet(ApiClimberIds(roster, team))), 1,
             ApiCaptainId(roster, team), eventId, mult)

\* ------------------------------------------------------------------- state
\* DEFAULT_TIER_CONFIG, without the per-team caps
DEFAULT_TIER_CONFIG ==
  << [name |-> "S", max_rank |-> 10], [name |-> "A", max_rank |-> 30],
     [name |-> "B", max_rank |-> Null] >>

NoLookup == [rank |-> Null, name |-> "none"]

NoRequest ==
  [after_event_id |-> Null, climber_out_id |-> Null, climber_in_id |-> Null,
   new_captain_id |-> Null]

Init ==
  /\ now = 1
  /\ event_status = [e \in Events |-> "upcoming"]
  /\ team_roster = << >>
  /\ captain_history = << >>
  /\ team_transfers = << >>
  /\ resp = "none"
  /\ pc = [p \in Procs |-> "idle"]
  /\ preq = [p \in Procs |-> NoRequest]
  /\ psnap = [p \in Procs |-> << >>]
  /\ pnow = [p \in Procs |-> Null]
  /\ selectedRoster = << >>
  /\ renderedRoster = << >>
  /\ tierConfig = DEFAULT_TIER_CONFIG
  /\ classified = NoLookup
  /\ events = << >>

Fits(roster, history, transfers) ==
  /\ Len(roster) <= MaxRows
  /\ Len(history) <= MaxHist
  /\ Len(transfers) <= MaxTransfers

\* time passes
Tick ==
  /\ now < MaxTime
  /\ now' = now + 1
  /\ UNCHANGED <<events, tiervars, uivars, event_status, dbvars, resp, procvars>>

\* the ingestion marks an event completed some time after its date
CompleteEvent(e) ==
  /\ event_status[e] = "upcoming"
  /\ now > EventDate[e]
  /\ event_status' = [event_status EXCEPT ![e] = "completed"]
  /\ UNCHANGED <<events, tiervars, uivars, now, dbvars, resp, procvars>>

Commit(o) ==
  /\ Fits(o.roster, o.history, o.transfers)
  /\ team_roster' = o.roster
  /\ captain_history' = o.history
  /\ team_transfers' = o.transfers
  /\ resp' = o.resp
  /\ UNCHANGED <<events, tiervars, uivars, now, event_status, procvars>>

\* teamsAPI.getRosterStatus: locked once the first event has started
RosterLocked ==
  LET first == CHOOSE e \in Events : \A f \in Events : EventDate[e] <= EventDate[f]
  IN EventDate[first] <= now \/ event_status[first] = "completed"

\* TeamPage renders TeamSelection, whose handleSave calls updateRoster, only
\* while the roster is not locked
UpdateRoster(S, captain) ==
  /\ ~RosterLocked
  /\ S # {} /\ Cardinality(S) <= TeamSize /\ captain \in S
  /\ Commit(Outcome(UpdateRosterHandler(team_roster, RosterList(S, captain), now),
                    captain_history, team_transfers, "saved"))

SetCaptain(climberId) ==
  /\ climberId \in Climbers
  /\ Commit(Outcome(SetCaptainRoster(team_roster, climberId),
                 SetCaptainHistory(captain_history, climberId, now),
                 team_transfers, "captain_set"))

\* TransferSection only submits a transfer for a completed event
EdgeCreateTransfer(req) ==
  /\ event_status[req.after_event_id] = "completed"
  /\ Commit(EdgeCreateTransferHandler(team_roster, captain_history,
                                   team_transfers, req, now))

\* teamsAPI.createTransfer, called with any request of that shape
ApiCreateTransfer(req) ==
  /\ event_status[req.after_event_id] = "completed"
  /\ Commit(ApiCreateTransferHandler(team_roster, captain_history,
                                  team_transfers, req, now))

Next ==
  \/ Tick
  \/ \E e \in Events : CompleteEvent(e)
  \/ \E S \in SUBSET Climbers : \E c \in S : UpdateRoster(S, c)
  \/ \E c \in Climbers : SetCaptain(c)
  \/ \E req \in TransferRequests : EdgeCreateTransfer(req)
  \/ \E req \in TransferRequests : ApiCreateTransfer(req)

Spec == Init /\ [][Next]_vars


\* ------------------------------------------------- the life of the entries
\* The same handlers, followed until the eve of the second event, with room
\* for a captaincy that has been replaced.
MaxEntryTime == 3
MaxEntryHist == 2

FitsEntries(roster, history, transfers) ==
  /\ Len(roster) <= MaxRows
  /\ Len(history) <= MaxEntryHist
  /\ Len(transfers) <= MaxTransfers

EntriesTick ==
  /\ now < MaxEntryTime
  /\ now' = now + 1
  /\ UNCHANGED <<events, tiervars, uivars, event_status, dbvars, resp, procvars>>

EntriesCommit(o) ==
  /\ FitsEntries(o.roster, o.history, o.transfers)
  /\ team_roster' = o.roster
  /\ captain_history' = o.history
  /\ team_transfers' = o.transfers
  /\ resp' = o.resp
  /\ UNCHANGED <<events, tiervars, uivars, now, event_status, procvars>>

EntriesUpdateRoster(S, captain) ==
  /\ ~RosterLocked
  /\ S # {} /\ Cardinality(S) <= TeamSize /\ captain \in S
  /\ EntriesCommit(Outcome(UpdateRosterHandler(team_roster,
                                               RosterList(S, captain), now),
                           captain_history, team_transfers, "saved"))

EntriesSetCaptain(climberId) ==
  /\ climberId \in Climbers
  /\ EntriesCommit(Outcome(SetCaptainRoster(team_roster, climberId),
                           SetCaptainHistory(captain_history, climberId, now),
                           team_transfers, "captain_set"))

EntriesEdgeCreateTransfer(req) ==
  /\ event_status[req.after_event_id] = "completed"
  /\ EntriesCommit(EdgeCreateTransferHandler(team_roster, captain_history,
                                             team_transfers, req, now))

EntriesApiCreateTransfer(req) ==
  /\ event_status[req.after_event_id] = "completed"
  /\ EntriesCommit(ApiCreateTransferHandler(team_roster, captain_history,
                                            team_transfers, req, now))

NextEntries ==
  \/ EntriesTick
  \/ \E e \in Events : CompleteEvent(e)
  \/ \E S \in SUBSET Climbers : \E c \in S : EntriesUpdateRoster(S, c)
  \/ \E c \in Climbers : EntriesSetCaptain(c)
  \/ \E req \in TransferRequests : EntriesEdgeCreateTransfer(req)
  \/ \E req \in TransferRequests : EntriesApiCreateTransfer(req)

SpecEntries == Init /\ [][NextEntries]_vars


\* ------------------------------------------- concurrent request handlers
\* Each await of a handler is one step; the steps of two handlers serving the
\* same team interleave.  A handler serves one request.
InitConc ==
  /\ now = 3
  /\ event_status = [e \in Events |-> IF EventDate[e] < 3 THEN "completed"
                                      ELSE "upcoming"]
  /\ team_roster = SetCaptainRoster(
                     UpdateRosterHandler(<< >>, RosterList({1, 2}, 1), 1), 1)
  /\ captain_history = SetCaptainHistory(<< >>, 1, 1)
  /\ team_transfers = << >>
  /\ resp = "none"
  /\ pc = [p \in Procs |-> "idle"]
  /\ preq = [p \in Procs |-> NoRequest]
  /\ psnap = [p \in Procs |-> << >>]
  /\ pnow = [p \in Procs |-> Null]
  /\ selectedRoster = << >>
  /\ renderedRoster = << >>
  /\ tierConfig = DEFAULT_TIER_CONFIG
  /\ classified = NoLookup
  /\ events = << >>

Goto(p, label) == pc' = [pc EXCEPT ![p] = label]

Finish(p, response) ==
  /\ pc' = [pc EXCEPT ![p] = "done"]
  /\ resp' = response

\* the request arrives and the handler counts the transfers of the event
EdgeBegin(p, req) ==
  /\ pc[p] = "idle"
  /\ event_status[req.after_event_id] = "completed"
  /\ preq' = [preq EXCEPT ![p] = req]
  /\ IF ExistingTransfers(team_transfers, Team, req.after_event_id)
          >= TransfersPerEvent
     THEN Finish(p, "transfer_limit")
     ELSE Goto(p, "e_read") /\ UNCHANGED resp
  /\ UNCHANGED <<events, tiervars, uivars, now, event_status, dbvars, psnap, pnow>>

\* it reads the current roster, checks both athletes and reads the clock
EdgeReadRoster(p) ==
  /\ pc[p] = "e_read"
  /\ LET snap == CurrentRoster(team_roster, Team)
     IN /\ psnap' = [psnap EXCEPT ![p] = snap]
        /\ IF preq[p].climber_out_id \notin SeqIds(snap)
           THEN Finish(p, "not_in_roster")
           ELSE IF preq[p].climber_in_id \in SeqIds(snap)
           THEN Finish(p, "already_in_roster")
           ELSE Goto(p, "e_insert") /\ UNCHANGED resp
  /\ pnow' = [pnow EXCEPT ![p] = now]
  /\ UNCHANGED <<events, tiervars, uivars, now, event_status, dbvars, preq>>

\* it inserts the transfer record; a failed insert is thrown
EdgeInsertTransfer(p) ==
  /\ pc[p] = "e_insert"
  /\ IF TransferConflict(team_transfers, Team, preq[p])
     THEN Finish(p, "error") /\ UNCHANGED team_transfers
     ELSE /\ team_transfers' = TransferInsert(team_transfers, Team, preq[p], pnow[p])
          /\ Goto(p, "e_close") /\ UNCHANGED resp
  /\ UNCHANGED <<events, tiervars, uivars, now, event_status, team_roster, captain_history, preq, psnap, pnow>>

\* it closes the outgoing athlete's open entry
EdgeCloseOutgoing(p) ==
  /\ pc[p] = "e_close"
  /\ team_roster' = RosterClose(team_roster, Team, preq[p].climber_out_id, pnow[p])
  /\ Goto(p, "e_add")
  /\ UNCHANGED <<events, tiervars, uivars, now, event_status, captain_history, team_transfers, resp,
                 preq, psnap, pnow>>

\* it opens the incoming athlete's entry
EdgeAddIncoming(p) ==
  /\ pc[p] = "e_add"
  /\ team_roster' = RosterInsert(team_roster, Team, preq[p].climber_in_id,
                                 EdgeWasCaptain(psnap[p], preq[p])
                                   /\ preq[p].new_captain_id = Null,
                                 pnow[p])
  /\ IF EdgeChangesCaptain(psnap[p], preq[p])
     THEN Goto(p, "e_clear") /\ UNCHANGED resp
     ELSE Finish(p, "ok")
  /\ UNCHANGED <<events, tiervars, uivars, now, event_status, captain_history, team_transfers,
                 preq, psnap, pnow>>

EdgeClearFlags(p) ==
  /\ pc[p] = "e_clear"
  /\ team_roster' = RosterClearCaptain(team_roster, Team)
  /\ Goto(p, "e_flag")
  /\ UNCHANGED <<events, tiervars, uivars, now, event_status, captain_history, team_transfers, resp,
                 preq, psnap, pnow>>

EdgeSetFlag(p) ==
  /\ pc[p] = "e_flag"
  /\ team_roster' = RosterSetFlag(team_roster, Team, EdgeCaptainId(preq[p]), TRUE)
  /\ Goto(p, "e_hclose")
  /\ UNCHANGED <<events, tiervars, uivars, now, event_status, captain_history, team_transfers, resp,
                 preq, psnap, pnow>>

EdgeCloseHistory(p) ==
  /\ pc[p] = "e_hclose"
  /\ captain_history' = HistoryClose(captain_history, Team, pnow[p])
  /\ Goto(p, "e_hinsert")
  /\ UNCHANGED <<events, tiervars, uivars, now, event_status, team_roster, team_transfers, resp,
                 preq, psnap, pnow>>

EdgeInsertHistory(p) ==
  /\ pc[p] = "e_hinsert"
  /\ captain_history' = HistoryInsert(captain_history, Team,
                                      EdgeCaptainId(preq[p]), pnow[p])
  /\ Finish(p, "ok")
  /\ UNCHANGED <<events, tiervars, uivars, now, event_status, team_roster, team_transfers,
                 preq, psnap, pnow>>

\* teamsAPI.setCaptain: the call reads the clock, then issues four writes
SetCaptainBegin(p, climberId) ==
  /\ pc[p] = "idle"
  /\ preq' = [preq EXCEPT ![p] = [NoRequest EXCEPT !.new_captain_id = climberId]]
  /\ pnow' = [pnow EXCEPT ![p] = now]
  /\ Goto(p, "s_clear")
  /\ UNCHANGED <<events, tiervars, uivars, now, event_status, dbvars, resp, psnap>>

SetCaptainClearFlags(p) ==
  /\ pc[p] = "s_clear"
  /\ team_roster' = RosterClearCaptain(team_roster, Team)
  /\ Goto(p, "s_flag")
  /\ UNCHANGED <<events, tiervars, uivars, now, event_status, captain_history, team_transfers, resp,
                 preq, psnap, pnow>>

SetCaptainSetFlag(p) ==
  /\ pc[p] = "s_flag"
  /\ team_roster' = RosterSetFlag(team_roster, Team, preq[p].new_captain_id, TRUE)
  /\ Goto(p, "s_hclose")
  /\ UNCHANGED <<events, tiervars, uivars, now, event_status, captain_history, team_transfers, resp,
                 preq, psnap, pnow>>

SetCaptainCloseHistory(p) ==
  /\ pc[p] = "s_hclose"
  /\ captain_history' = HistoryClose(captain_history, Team, pnow[p])
  /\ Goto(p, "s_hinsert")
  /\ UNCHANGED <<events, tiervars, uivars, now, event_status, team_roster, team_transfers, resp,
                 preq, psnap, pnow>>

SetCaptainInsertHistory(p) ==
  /\ pc[p] = "s_hinsert"
  /\ captain_history' = HistoryInsert(captain_history, Team,
                                      preq[p].new_captain_id, pnow[p])
  /\ Finish(p, "captain_set")
  /\ UNCHANGED <<events, tiervars, uivars, now, event_status, team_roster, team_transfers,
                 preq, psnap, pnow>>

NextConc ==
  \/ Tick
  \/ \E p \in Procs : \E req \in TransferRequests : EdgeBegin(p, req)
  \/ \E p \in Procs : EdgeReadRoster(p)
  \/ \E p \in Procs : EdgeInsertTransfer(p)
  \/ \E p \in Procs : EdgeCloseOutgoing(p)
  \/ \E p \in Procs : EdgeAddIncoming(p)
  \/ \E p \in Procs : EdgeClearFlags(p)
  \/ \E p \in Procs : EdgeSetFlag(p)
  \/ \E p \in Procs : EdgeCloseHistory(p)
  \/ \E p \in Procs : EdgeInsertHistory(p)
  \/ \E p \in Procs : \E c \in Climbers : SetCaptainBegin(p, c)
  \/ \E p \in Procs : SetCaptainClearFlags(p)
  \/ \E p \in Procs : SetCaptainSetFlag(p)
  \/ \E p \in Procs : SetCaptainCloseHistory(p)
  \/ \E p \in Procs : SetCaptainInsertHistory(p)

SpecConc == InitConc /\ [][NextConc]_vars


\* ---------------------------------------------------- the transfer window
\* TransferSection loads the events once, when it is mounted, and offers
\* transfers from what it loaded; the requests go to the handlers above.
MaxWindowTime == 5

\* eventsData sorted by date ascending
RECURSIVE SortByDate(_)
SortByDate(S) ==
  IF S = {} THEN << >>
  ELSE LET e == CHOOSE x \in S : \A y \in S : EventDate[x] <= EventDate[y]
       IN <<e>> \o SortByDate(S \ {e})

\* leaguesAPI.getEvents, sorted: the events with their status of that moment
LoadedEvents(status) ==
  LET ids == SortByDate(Events)
  IN [i \in DOMAIN ids |-> [id |-> ids[i], status |-> status[ids[i]]]]

\* getAvailableTransferEvents: the latest completed event, unless the event
\* after it is in progress or completed
getAvailableTransferEvents(evs) ==
  LET completedEvents == SelectSeq(evs, LAMBDA e : e.status = "completed")
  IN IF Len(completedEvents) = 0 THEN << >>
     ELSE LET latestCompletedEvent == completedEvents[Len(completedEvents)]
              latestIndex == CHOOSE i \in DOMAIN evs :
                                /\ evs[i].id = latestCompletedEvent.id
                                /\ \A j \in DOMAIN evs :
                                      evs[j].id = latestCompletedEvent.id => i <= j
          IN IF /\ latestIndex + 1 \in DOMAIN evs
                /\ evs[latestIndex + 1].status \in {"in_progress", "completed"}
             THEN << >>
             ELSE <<latestCompletedEvent>>

Offered(evs) ==
  { getAvailableTransferEvents(evs)[i].id :
      i \in DOMAIN getAvailableTransferEvents(evs) }

InitWindow == InitConc

WindowTick ==
  /\ now < MaxWindowTime
  /\ now' = now + 1
  /\ UNCHANGED <<events, tiervars, uivars, event_status, dbvars, resp, procvars>>

\* loadData: runs when the component is mounted
LoadData ==
  /\ events' = LoadedEvents(event_status)
  /\ events' # events
  /\ UNCHANGED <<tiervars, uivars, now, event_status, dbvars, resp, procvars>>

\* handleSubmitTransfer for an event of getAvailableTransferEvents()
SubmitTransfer(req) ==
  /\ req.after_event_id \in Offered(events)
  /\ \/ EntriesCommit(EdgeCreateTransferHandler(team_roster, captain_history,
                                                team_transfers, req, now))
     \/ EntriesCommit(ApiCreateTransferHandler(team_roster, captain_history,
                                               team_transfers, req, now))

NextWindow ==
  \/ WindowTick
  \/ \E e \in Events : CompleteEvent(e)
  \/ LoadData
  \/ \E req \in TransferRequests : SubmitTransfer(req)

SpecWindow == InitWindow /\ [][NextWindow]_vars


\* -------------------------------------------------------------- properties
\* the athletes with a roster entry of the team covering the instant T
RosterAsOf(roster, T) ==
  { roster[i].climber_id :
      i \in { j \in DOMAIN roster :
                /\ roster[j].team_id = Team
                /\ roster[j].added_at <= T
                /\ (roster[j].removed_at = Null \/ roster[j].removed_at > T) } }

OpenEntries(roster, climber) ==
  { i \in DOMAIN roster : /\ roster[i].team_id = Team
                          /\ roster[i].climber_id = climber
                          /\ roster[i].removed_at = Null }

Rejections ==
  {"transfer_limit", "not_in_roster", "already_in_roster", "tier_limit"}

\* the step is a transfer request handled by either implementation
TransferStep(req) == EdgeCreateTransfer(req) \/ ApiCreateTransfer(req)

\* C1: a transfer request rejected because the allowance is used up, the
\* outgoing athlete is not on the roster, the incoming athlete is already on
\* it or a tier cap would be exceeded leaves the roster log, the captaincy
\* log and the transfer records exactly as they were.
RejectedTransferChangesNothing ==
  [][resp' \in Rejections =>
        (UNCHANGED dbvars \/ \A req \in TransferRequests : ~TransferStep(req))]_vars

\* a second request for an event whose allowance is used was rejected
RejectedTransferSeen ==
  /\ resp = "transfer_limit"
  /\ team_transfers # << >>
  /\ team_roster # << >>

\* C2: the log mutations of an accepted transfer are applied all or none:
\* whenever a transfer record exists, the outgoing athlete's entry is closed
\* and the incoming athlete's entry is opened at the record's instant, and a
\* captaincy entry closed at that instant comes with the one opened at it.
TransferAllOrNothing ==
  \A i \in DOMAIN team_transfers :
     LET tr == team_transfers[i]
     IN /\ \E j \in DOMAIN team_roster :
              /\ team_roster[j].climber_id = tr.climber_out_id
              /\ team_roster[j].removed_at = tr.created_at
        /\ \E j \in DOMAIN team_roster :
              /\ team_roster[j].climber_id = tr.climber_in_id
              /\ team_roster[j].added_at = tr.created_at
        /\ (\E j \in DOMAIN captain_history :
               captain_history[j].replaced_at = tr.created_at)
             => \E j \in DOMAIN captain_history :
                   captain_history[j].set_at = tr.created_at

\* the positions of the create-transfer handler past its checks
EdgeWritePhase ==
  {"e_insert", "e_close", "e_add", "e_clear", "e_flag", "e_hclose", "e_hinsert"}

\* C3: two transfer requests of one team exclude each other from the checks
\* to the last write: never have both passed the checks against the same
\* pre-transfer roster.
TransfersMutuallyExclusive ==
  \A p, q \in Procs :
     (p # q /\ pc[p] \in EdgeWritePhase /\ pc[q] \in EdgeWritePhase)
       => psnap[p] # psnap[q]

\* C4: after any sequence of updateRoster calls and transfers an athlete has
\* at most one open roster entry on the team.
OneOpenEntryPerAthlete ==
  \A c \in Climbers : Cardinality(OpenEntries(team_roster, c)) <= 1

\* C5: after any sequence or interleaving of setCaptain calls and
\* captain-changing transfers the team has at most one open captaincy entry.
OneOpenCaptaincyEntry ==
  Cardinality({ i \in DOMAIN captain_history :
                  /\ captain_history[i].team_id = Team
                  /\ captain_history[i].replaced_at = Null }) <= 1

\* C6: the athletes the readers score at an event dated T are exactly those
\* with an entry whose addedAt <= T and whose removedAt is null or > T: an
\* entry added exactly at T counts, an entry removed exactly at T does not,
\* an entry with addedAt < T < removedAt counts.
RosterAsOfBoundaries ==
  \A e \in Events :
     LET T == EventDate[e]
         active == SeqToSet(ActiveClimberIds(team_roster, Team, T))
         covers(r) == r.removed_at = Null \/ r.removed_at > T
     IN /\ \A i \in DOMAIN team_roster :
             LET r == team_roster[i]
             IN /\ (r.added_at = T /\ covers(r)) => r.climber_id \in active
                /\ (r.added_at < T /\ covers(r)) => r.climber_id \in active
        /\ \A c \in active :
             \E i \in DOMAIN team_roster :
                LET r == team_roster[i]
                IN r.climber_id = c /\ r.added_at <= T /\ covers(r)

\* a transfer at the very instant of an event: the outgoing athlete's entry
\* ends at T and does not count, the incoming athlete's starts at T and does
BoundaryEntriesSeen ==
  \E e \in Events : \E i, j \in DOMAIN team_roster :
     /\ team_roster[i].removed_at = EventDate[e]
     /\ team_roster[i].added_at < EventDate[e]
     /\ team_roster[j].added_at = EventDate[e]
     /\ team_roster[i].climber_id
          \notin SeqToSet(ActiveClimberIds(team_roster, Team, EventDate[e]))
     /\ team_roster[j].climber_id
          \in SeqToSet(ActiveClimberIds(team_roster, Team, EventDate[e]))

\* the scenario's setting: X was on the roster at E1 and Z was not, X is not
\* the captain, the request names no captain, the clock is past E1's date
ScenarioB(req) ==
  /\ req.new_captain_id = Null
  /\ ~EdgeWasCaptain(CurrentRoster(team_roster, Team), req)
  /\ EventDate[req.after_event_id] < now
  /\ req.climber_out_id
       \in SeqToSet(ActiveClimberIds(team_roster, Team, EventDate[req.after_event_id]))
  /\ req.climber_in_id
       \notin SeqToSet(ActiveClimberIds(team_roster, Team, EventDate[req.after_event_id]))

\* C7: after an accepted transfer X -> Z following event E1 (X not captain,
\* no captaincy change) the roster as of E1's date still has X and not Z,
\* and the roster as of any later event date has Z and not X.
TransferKeepsPastRoster ==
  [][\A req \in TransferRequests :
        (resp' = "ok" /\ team_transfers' # team_transfers
           /\ ScenarioB(req) /\ TransferStep(req)) =>
           /\ req.climber_out_id
                \in SeqToSet(ActiveClimberIds(team_roster', Team,
                                              EventDate[req.after_event_id]))
           /\ req.climber_in_id
                \notin SeqToSet(ActiveClimberIds(team_roster', Team,
                                                 EventDate[req.after_event_id]))
           /\ \A T \in (now + 1)..(MaxTime + 1) :
                 /\ req.climber_in_id
                      \in SeqToSet(ActiveClimberIds(team_roster', Team, T))
                 /\ req.climber_out_id
                      \notin SeqToSet(ActiveClimberIds(team_roster', Team, T))]_vars

\* a transfer after E1 and before the next event has been applied without a
\* captaincy change
ScenarioBSeen ==
  \E i \in DOMAIN team_transfers : \E f \in Events :
     LET tr == team_transfers[i]
         E1 == EventDate[tr.after_event_id]
     IN /\ E1 < tr.created_at /\ tr.created_at < EventDate[f]
        /\ captain_history = << >>
        /\ tr.climber_out_id \in SeqToSet(ActiveClimberIds(team_roster, Team, E1))
        /\ tr.climber_in_id \notin SeqToSet(ActiveClimberIds(team_roster, Team, E1))
        /\ tr.climber_in_id
             \in SeqToSet(ActiveClimberIds(team_roster, Team, EventDate[f]))
        /\ tr.climber_out_id
             \notin SeqToSet(ActiveClimberIds(team_roster, Team, EventDate[f]))

\* C8: in calculate-leaderboard a transfer committed at the instant now
\* leaves the score of every completed event dated before now unchanged,
\* also for a team with no captaincy entry covering the event.
TransferKeepsPastScores ==
  [][\A req \in TransferRequests :
        (resp' = "ok" /\ team_transfers' # team_transfers
           /\ EdgeCreateTransfer(req)) =>
           \A e \in Events : \A m \in Multipliers :
              (event_status[e] = "completed" /\ EventDate[e] < now) =>
                 LbEventScore(team_roster', captain_history', Team, e, m)
                   = LbEventScore(team_roster, captain_history, Team, e, m)]_vars

\* C9: the client API views score a completed event of a team that had a
\* roster at the event with the athletes of the roster as of the event's date.
ApiViewsUseRosterAsOfEvent ==
  \A e \in Events :
     (event_status[e] = "completed"
        /\ RosterAsOf(team_roster, EventDate[e]) # {}) =>
        SeqToSet(ApiClimberIds(team_roster, Team))
          = RosterAsOf(team_roster, EventDate[e])

\* floor(basePoints * multiplier), multiplier in hundredths
ExactFloor(basePoints, multiplier) == (basePoints * multiplier) \div 100

RECURSIVE ExactScore(_, _, _, _, _)
\* wide: the table of 80 ranks, otherwise the table of 40
ExactScore(athletes, eventId, captain, mult, wide) ==
  IF athletes = {} THEN 0
  ELSE LET a == CHOOSE x \in athletes : TRUE
           results == ResultsFor(eventId, {a})
           basePoints == IF results = {} THEN 0
                         ELSE IF wide
                         THEN getPointsForRank((CHOOSE r \in results : TRUE).rank)
                         ELSE getPointsForRank40((CHOOSE r \in results : TRUE).rank)
       IN ExactFloor(basePoints, IF a = captain THEN mult ELSE 100)
          + ExactScore(athletes \ {a}, eventId, captain, mult, wide)

\* C10: the score of a team for an event in calculate-leaderboard and in
\* get-team-breakdown is the sum, over exactly the athletes of the roster as
\* of the event's date, of floor(basePoints * multiplier), the multiplier
\* being the league's captain multiplier for the captain at the event and 1
\* for the others.
ScoreIsSumOfFlooredProducts ==
  \A e \in Events : \A m \in Multipliers :
     LET athletes == RosterAsOf(team_roster, EventDate[e])
         captain == CaptainAtEvent(team_roster, captain_history, Team,
                                   EventDate[e])
     IN /\ event_status[e] = "completed" =>
             LbEventScore(team_roster, captain_history, Team, e, m)
               = ExactScore(athletes, e, captain, m, TRUE)
        /\ TbTeamTotal(team_roster, captain_history, Team, e, m)
             = ExactScore(athletes, e, captain, m, FALSE)

\* C11: after any sequence of roster saves, captain changes and transfers,
\* every non-empty roster snapshot as of an instant has exactly one captain:
\* the captain the readers determine for the instant is an athlete of the
\* snapshot.
SnapshotHasItsCaptain ==
  \A T \in 1..MaxTime :
     LET active == SeqToSet(ActiveClimberIds(team_roster, Team, T))
     IN active # {} =>
          CaptainAtEvent(team_roster, captain_history, Team, T) \in active

\* no tier with a cap holds more athletes of the current roster than the cap
TierCapsRespected(roster) == ~TierLimitViolated(ApiClimberIds(roster, Team))

\* C12: an accepted transfer on a roster that respects every tier's cap
\* leaves a current roster that respects every cap; a proposal whose
\* prospective roster would exceed a cap is not accepted.
TransfersKeepTierCaps ==
  [][(resp' = "ok" /\ team_transfers' # team_transfers
        /\ TierCapsRespected(team_roster)) =>
           TierCapsRespected(team_roster')]_vars

\* C13: after any sequence or interleaving of transfer requests the number
\* of transfers recorded for a team and an event never exceeds the league's
\* transfers_per_event.
TransferCountWithinAllowance ==
  \A e \in Events :
     ExistingTransfers(team_transfers, Team, e) <= TransfersPerEvent

\* ------------------------------------------------- standings of a league
\* the league's fantasy_teams rows: t1 is the team the operations act on,
\* t2 never saved a roster, t3 saved athletes 2 (captain) and 3 at time 1
LeagueTeams == {"t1", "t2", "t3"}

OtherRoster ==
  << [team_id |-> "t3", climber_id |-> 2, is_captain |-> TRUE,
      added_at |-> 1, removed_at |-> Null],
     [team_id |-> "t3", climber_id |-> 3, is_captain |-> FALSE,
      added_at |-> 1, removed_at |-> Null] >>

OtherHistory ==
  << [team_id |-> "t3", climber_id |-> 2, set_at |-> 1, replaced_at |-> Null] >>

\* .from("fantasy_teams").select(...).eq("league_id", ...) has no ORDER BY:
\* the rows come back in any order
TeamQueryOrders ==
  { q \in [1..Cardinality(LeagueTeams) -> LeagueTeams] :
      \A i, j \in DOMAIN q : i # j => q[i] # q[j] }

\* a variant that keeps every event of the league whatever its status
CompletedEventIdsAnyStatus(status) == SetToSeq(Events)

\* .from("events").select("id, date").in("id", eventIds).eq("status", "completed")
CompletedEventIds(status) ==
  SetToSeq({ e \in Events : status[e] = "completed" })

\* eventScores[eventId] = value
PutScore(scores, eventId, value) ==
  [x \in (DOMAIN scores) \cup {eventId} |->
     IF x = eventId THEN value ELSE scores[x]]

\* calculate-leaderboard: for (const eventId of completedEventIds) of one team
RECURSIVE LbTeamLoop(_, _, _, _, _, _, _, _)
LbTeamLoop(roster, history, team, mult, ids, i, totalScore, eventScores) ==
  IF i > Len(ids)
  THEN [rank |-> 0, team_id |-> team, total_score |-> totalScore,
        event_scores |-> eventScores]
  ELSE LET score == LbEventScore(roster, history, team, ids[i], mult)
       IN LbTeamLoop(roster, history, team, mult, ids, i + 1,
                     totalScore + score, PutScore(eventScores, ids[i], score))

\* leaderboardAPI.getByLeague: for (const eventId of completedEventIds)
RECURSIVE ApiTeamLoop(_, _, _, _, _, _, _)
ApiTeamLoop(roster, team, mult, ids, i, totalScore, eventScores) ==
  IF i > Len(ids)
  THEN [rank |-> 0, team_id |-> team, total_score |-> totalScore,
        event_scores |-> eventScores]
  ELSE LET score == ApiLbEventScore(roster, team, ids[i], mult)
       IN ApiTeamLoop(roster, team, mult, ids, i + 1,
                      totalScore + score, PutScore(eventScores, ids[i], score))

\* leaderboardAPI.getByLeague: the entry pushed for one team
ApiTeamEntry(roster, team, mult, ids) ==
  IF Len(ApiClimberIds(roster, team)) = 0
  THEN [rank |-> 0, team_id |-> team, total_score |-> 0,
        event_scores |-> << >>]
  ELSE ApiTeamLoop(roster, team, mult, ids, 1, 0, << >>)

\* a variant that orders by total score ascending
RECURSIVE SortAscending(_)
SortAscending(entries) ==
  IF Len(entries) <= 1 THEN entries
  ELSE LET rest == SortAscending(Tail(entries))
           e == Head(entries)
           k == Cardinality({ j \in DOMAIN rest :
                                rest[j].total_score < e.total_score })
       IN SubSeq(rest, 1, k) \o <<e>> \o SubSeq(rest, k + 1, Len(rest))

\* leaderboard.sort((a, b) => b.total_score - a.total_score): a stable sort,
\* entries of equal total keep their order
RECURSIVE SortDescending(_)
SortDescending(entries) ==
  IF Len(entries) <= 1 THEN entries
  ELSE LET rest == SortDescending(Tail(entries))
           e == Head(entries)
           k == Cardinality({ j \in DOMAIN rest :
                                rest[j].total_score > e.total_score })
       IN SubSeq(rest, 1, k) \o <<e>> \o SubSeq(rest, k + 1, Len(rest))

\* leaderboard.forEach((entry, index) => { entry.rank = index + 1 })
AssignRanks(entries) ==
  [i \in DOMAIN entries |-> [entries[i] EXCEPT !.rank = i]]

\* the calculate-leaderboard handler, for the teams in their query order
LbLeaderboard(roster, history, status, teams, mult) ==
  LET ids == CompletedEventIds(status)
  IN AssignRanks(SortDescending(
       [i \in DOMAIN teams |->
          LbTeamLoop(roster, history, teams[i], mult, ids, 1, 0, << >>)]))

\* leaderboardAPI.getByLeague, for the teams in their query order
ApiLeaderboard(roster, status, teams, mult) ==
  LET ids == CompletedEventIds(status)
  IN AssignRanks(SortDescending(
       [i \in DOMAIN teams |-> ApiTeamEntry(roster, teams[i], mult, ids)]))

\* the league's completed events, and a sum of per-event scores over a set
Completed == { e \in Events : event_status[e] = "completed" }

RECURSIVE SumOver(_, _)
SumOver(S, f) ==
  IF S = {} THEN 0
  ELSE LET e == CHOOSE x \in S : TRUE IN f[e] + SumOver(S \ {e}, f)

\* C14: in the standings of both implementations only completed events
\* contribute: every entry's event_scores has keys of completed events only
\* and its total_score is the sum of the team's scores over the completed
\* events; with no completed event every total is 0 and every map is empty.
OnlyCompletedEventsCount ==
  LET roster == team_roster \o OtherRoster
      history == captain_history \o OtherHistory
      teams == <<"t1", "t2", "t3">>
  IN \A mult \in Multipliers :
       \A lb \in {LbLeaderboard(roster, history, event_status, teams, mult)},
          api \in {ApiLeaderboard(roster, event_status, teams, mult)} :
          /\ \A i \in DOMAIN lb :
               /\ DOMAIN lb[i].event_scores \subseteq Completed
               /\ lb[i].total_score =
                    SumOver(Completed,
                            [e \in Events |->
                               LbEventScore(roster, history, lb[i].team_id,
                                            e, mult)])
               /\ Completed = {} =>
                    lb[i].total_score = 0 /\ DOMAIN lb[i].event_scores = {}
          /\ \A i \in DOMAIN api :
               /\ DOMAIN api[i].event_scores \subseteq Completed
               /\ api[i].total_score =
                    SumOver(Completed,
                            [e \in Events |->
                               ApiLbEventScore(roster, api[i].team_id, e, mult)])
               /\ Completed = {} =>
                    api[i].total_score = 0 /\ DOMAIN api[i].event_scores = {}

\* event 1 is completed and event 2 is not, while the team's roster would
\* score at event 2 and its entry has a positive total
UpcomingEventWouldScore ==
  LET roster == team_roster \o OtherRoster
      history == captain_history \o OtherHistory
      lb == LbLeaderboard(roster, history, event_status,
                          <<"t1", "t2", "t3">>, 120)
  IN /\ Completed = {1}
     /\ LbEventScore(roster, history, Team, 2, 120) > 0
     /\ ApiLbEventScore(roster, Team, 2, 120) > 0
     /\ \E i \in DOMAIN lb : lb[i].team_id = Team /\ lb[i].total_score > 0

\* the entries are one per team of the league, ordered by total score
\* descending, with ranks 1..N in that order
WellFormedStandings(lb) ==
  /\ Len(lb) = Cardinality(LeagueTeams)
  /\ \A t \in LeagueTeams :
       Cardinality({ i \in DOMAIN lb : lb[i].team_id = t }) = 1
  /\ \A i \in DOMAIN lb : lb[i].rank = i
  /\ \A i, j \in DOMAIN lb :
       i < j => lb[i].total_score >= lb[j].total_score

\* the entry of a team scores 0: total 0 and no event with another score
ScoresZero(lb, team) ==
  \A i \in DOMAIN lb :
     lb[i].team_id = team =>
       /\ lb[i].total_score = 0
       /\ \A e \in DOMAIN lb[i].event_scores : lb[i].event_scores[e] = 0

\* C15: whatever the order the teams are read in, the standings of both
\* implementations hold exactly one entry per team of the league, ordered by
\* total score descending with ranks 1..N in that order, and a team with an
\* empty roster is present and scores 0 for every event.
StandingsCompleteAndRanked ==
  LET roster == team_roster \o OtherRoster
      history == captain_history \o OtherHistory
  IN \A mult \in Multipliers, teams \in TeamQueryOrders :
       \A lb \in {LbLeaderboard(roster, history, event_status, teams, mult)},
          api \in {ApiLeaderboard(roster, event_status, teams, mult)} :
          /\ WellFormedStandings(lb)
          /\ WellFormedStandings(api)
          /\ \A t \in LeagueTeams :
               /\ TeamRows(roster, t) = << >> => ScoresZero(lb, t)
               /\ CurrentRoster(roster, t) = << >> => ScoresZero(api, t)

\* the acting team is read last, has the highest total and is ranked first
\* ahead of a scoring team and a team with an empty roster
LastReadTeamRankedFirst ==
  LET roster == team_roster \o OtherRoster
      history == captain_history \o OtherHistory
      lb == LbLeaderboard(roster, history, event_status,
                          <<"t2", "t3", "t1">>, 120)
      api == ApiLeaderboard(roster, event_status, <<"t2", "t3", "t1">>, 120)
  IN /\ lb[1].team_id = Team /\ lb[1].total_score > lb[2].total_score
     /\ lb[2].team_id = "t3" /\ lb[2].total_score > 0
     /\ lb[3].team_id = "t2"
     /\ api[1].team_id = Team /\ api[1].total_score > api[2].total_score

\* the captaincy entries of the team that cover the instant T, and the
\* athletes flagged captain among the roster entries active at T
CoveringEntries(T) ==
  { i \in DOMAIN captain_history :
      /\ captain_history[i].team_id = Team
      /\ captain_history[i].set_at <= T
      /\ (captain_history[i].replaced_at = Null
            \/ captain_history[i].replaced_at > T) }

FlaggedAt(T) ==
  { team_roster[i].climber_id : i \in
      { j \in DOMAIN team_roster :
          /\ team_roster[j].team_id = Team
          /\ team_roster[j].is_captain
          /\ team_roster[j].added_at <= T
          /\ (team_roster[j].removed_at = Null
                \/ team_roster[j].removed_at > T) } }

LatestCoveringEntryWins ==
  \A T \in 1..MaxTime :
     Cardinality(CoveringEntries(T)) >= 2 =>
       \E i \in CoveringEntries(T) :
          /\ \A j \in CoveringEntries(T) :
                captain_history[j].set_at <= captain_history[i].set_at
          /\ CaptainAtEvent(team_roster, captain_history, Team, T)
               = captain_history[i].climber_id

\* the failure of the first violated precondition in the order outgoing
\* athlete not on the roster, incoming athlete already on it, tier cap
\* exceeded, captain reassignment required, allowance used; "ok" when none is
FirstViolation(req) ==
  LET snap == CurrentRoster(team_roster, Team)
  IN IF req.climber_out_id \notin SeqIds(snap) THEN "not_in_roster"
     ELSE IF req.climber_in_id \in SeqIds(snap) THEN "already_in_roster"
     ELSE IF TierLimitViolated(NewRosterIds(team_roster, req)) THEN "tier_limit"
     ELSE IF EdgeWasCaptain(snap, req) /\ req.new_captain_id = Null
     THEN "captain_required"
     ELSE IF ExistingTransfers(team_transfers, Team, req.after_event_id)
               >= TransfersPerEvent
     THEN "transfer_limit"
     ELSE "ok"

\* C19: a rejected transfer request whose outgoing athlete is not on the
\* roster is answered with the failure of the first violated precondition
\* of that order, not_in_roster, also when the event's allowance is used.
FirstViolatedPreconditionWins ==
  [][resp' \in Rejections =>
       \A req \in TransferRequests :
          (req.climber_out_id \notin SeqIds(CurrentRoster(team_roster, Team))
             /\ EdgeCreateTransfer(req))
            => resp' = FirstViolation(req)]_vars

\* C20: a transfer request whose outgoing athlete is the current captain
\* and that names no new captain is not accepted: it changes neither the
\* roster entries, the captaincy entries nor the transfer records.
CaptainLeavingNeedsNewCaptain ==
  [][resp' = "ok" =>
       \A req \in TransferRequests :
          (/\ req.new_captain_id = Null
           /\ EdgeWasCaptain(CurrentRoster(team_roster, Team), req)
           /\ TransferStep(req))
            => UNCHANGED dbvars]_vars

\* ------------------------------------------------ the TeamSelection page
\* longest selectedRoster list explored
MaxSelected == 3

\* isSelected(climberId), on the list the rendered handlers closed over
IsSelected(list, climberId) ==
  \E i \in DOMAIN list : list[i].climber_id = climberId

\* isTierFull(climberId): tierCounts[tier] >= tierCfg.max_per_team
IsTierFull(list, climberId) ==
  \E i \in DOMAIN TierConfig :
     /\ TierConfig[i].name = GetTier(climberId)
     /\ TierConfig[i].max_per_team # Null
     /\ TierCount([j \in DOMAIN list |-> list[j].climber_id], TierConfig[i].name)
          >= TierConfig[i].max_per_team

\* the page starts on a team without roster, before the first event
InitSelection == Init

\* React renders the component again: the handlers see the current state
Render ==
  /\ renderedRoster # selectedRoster
  /\ renderedRoster' = selectedRoster
  /\ UNCHANGED <<events, tiervars, now, event_status, dbvars, resp, procvars,
               selectedRoster>>

\* toggleClimber: the conditions read the rendered list, the update is
\* applied to the current state (setSelectedRoster((prev) => ...))
ToggleClimber(climberId) ==
  /\ climberId \in Climbers
  /\ IF IsSelected(renderedRoster, climberId)
     THEN selectedRoster' =
            SelectSeq(selectedRoster, LAMBDA r : r.climber_id # climberId)
     ELSE IF Len(renderedRoster) < TeamSize
             /\ ~IsTierFull(renderedRoster, climberId)
     THEN /\ Len(selectedRoster) < MaxSelected
          /\ selectedRoster' =
               Append(selectedRoster,
                      [climber_id |-> climberId, is_captain |-> FALSE])
     ELSE UNCHANGED selectedRoster
  /\ UNCHANGED <<events, tiervars, now, event_status, dbvars, resp, procvars,
               renderedRoster>>

\* setCaptain of the page: flags the entry of the athlete, clears the others
SelectCaptain(climberId) ==
  /\ IsSelected(renderedRoster, climberId)
  /\ selectedRoster' =
       [i \in DOMAIN selectedRoster |->
          [selectedRoster[i] EXCEPT
             !.is_captain = (selectedRoster[i].climber_id = climberId)]]
  /\ UNCHANGED <<events, tiervars, now, event_status, dbvars, resp, procvars,
               renderedRoster>>

\* handleSave: teamsAPI.updateRoster(teamId, selectedRoster) with the
\* rendered list, when it is not empty and has a captain
HandleSave ==
  /\ ~RosterLocked
  /\ Len(renderedRoster) # 0
  /\ \E i \in DOMAIN renderedRoster : renderedRoster[i].is_captain
  /\ Commit(Outcome(UpdateRosterHandler(team_roster, renderedRoster, now),
                    captain_history, team_transfers, "saved"))

NextSelection ==
  \/ Render
  \/ \E c \in Climbers : ToggleClimber(c)
  \/ \E c \in Climbers : SelectCaptain(c)
  \/ HandleSave

SpecSelection == InitSelection /\ [][NextSelection]_vars

\* C16: whatever toggleClimber actions were issued, also several from one
\* render, the selected roster holds at most team_size athletes and the
\* roster saved through the page has at most team_size open entries.
SelectionWithinTeamSize ==
  /\ Len(selectedRoster) <= TeamSize
  /\ Len(CurrentRoster(team_roster, Team)) <= TeamSize

\* the athletes flagged captain among the team's open roster entries, and
\* the athletes of the team's open captaincy entries
FlaggedNow ==
  { r.climber_id : r \in
      { x \in SeqToSet(CurrentRoster(team_roster, Team)) : x.is_captain } }

OpenCaptaincyNow ==
  { h.climber_id : h \in
      { x \in SeqToSet(TeamRows(captain_history, Team)) :
          x.replaced_at = Null } }

\* C21: after an accepted transfer whose outgoing athlete was the captain,
\* an athlete is flagged captain, and every athlete flagged captain or named
\* by an open captaincy entry is on the current roster and is not the
\* outgoing athlete, whatever new_captain_id the request carries.
TransferredCaptainIsReplaced ==
  [][(resp' = "ok" /\ team_transfers' # team_transfers) =>
       \A req \in TransferRequests :
          (/\ EdgeWasCaptain(CurrentRoster(team_roster, Team), req)
           /\ TransferStep(req))
            => /\ FlaggedNow' # {}
               /\ (FlaggedNow \cup OpenCaptaincyNow)' \subseteq
                    (SeqIds(CurrentRoster(team_roster, Team)))'
                      \ {req.climber_out_id}]_vars

\* C22: when a transfer has been applied, the outgoing athlete's entry is
\* closed and the incoming athlete's entry opened at the one instant the
\* handler read, and at every instant from the outgoing entry's added_at
\* on exactly one of the two athletes is on the roster as of that instant.
TransferSwapsAtOneInstant ==
  [][\A p \in Procs :
        (pc[p] \in {"e_add", "e_hinsert"} /\ pc'[p] = "done" /\ resp' = "ok") =>
          LET out == preq[p].climber_out_id
              in == preq[p].climber_in_id
              closed == { i \in DOMAIN team_roster' :
                            /\ team_roster'[i].climber_id = out
                            /\ team_roster'[i].removed_at = pnow[p] }
          IN /\ closed # {}
             /\ \E j \in DOMAIN team_roster' :
                   /\ team_roster'[j].climber_id = in
                   /\ team_roster'[j].added_at = pnow[p]
             /\ \A i \in closed :
                   \A T \in team_roster'[i].added_at..MaxTime :
                      (out \in RosterAsOf(team_roster', T))
                        # (in \in RosterAsOf(team_roster', T))]_vars

\* ------------------------------------------- tier configuration and lookup
\* most tiers of a configuration explored (the page stops at 6)
MaxTiers == 3

\* largest cutoff Add Tier may produce
MaxCutoff == 70

\* the values typed into a tier's Max Rank field (Null: the field emptied),
\* and the world ranks looked up (Null: no ranking entry)
CutoffInputs == {Null, 10, 30}
RankInputs == {Null, 5, 10, 20, 40, 80}

\* the first letter not used as a tier name yet
TierLetters == <<"A", "B", "C", "D", "E", "F">>

NextLetter(config) ==
  LET free == { i \in DOMAIN TierLetters :
                  \A j \in DOMAIN config : config[j].name # TierLetters[i] }
  IN IF free = {} THEN "A"
     ELSE TierLetters[CHOOSE i \in free : \A j \in free : i <= j]

\* getTier / getAthleTier for an athlete of world rank `rank`
TierOfRank(config, rank) ==
  LET hits == { i \in DOMAIN config :
                  config[i].max_rank = Null \/ rank <= config[i].max_rank }
  IN IF rank = Null \/ Len(config) = 0
     THEN IF Len(config) = 0 THEN "?" ELSE config[Len(config)].name
     ELSE IF hits = {} THEN config[Len(config)].name
     ELSE config[CHOOSE i \in hits : \A j \in hits : i <= j].name

\* the Max Rank field of a tier is edited
SetMaxRank(index, val) ==
  /\ index \in DOMAIN tierConfig
  /\ tierConfig[index].max_rank # val
  /\ tierConfig' = [tierConfig EXCEPT ![index].max_rank = val]
  /\ classified' = NoLookup
  /\ UNCHANGED <<events, uivars, now, event_status, dbvars, resp, procvars>>

\* the remove button of a tier, shown while more than one tier is left
RemoveTier(index) ==
  /\ index \in DOMAIN tierConfig
  /\ Len(tierConfig) > 1
  /\ tierConfig' = [i \in 1..(Len(tierConfig) - 1) |->
                      IF i < index THEN tierConfig[i] ELSE tierConfig[i + 1]]
  /\ classified' = NoLookup
  /\ UNCHANGED <<events, uivars, now, event_status, dbvars, resp, procvars>>

\* Add Tier: the last tier gets the cutoff (its max_rank ?? 50) + 20 and a
\* new tier without cutoff is appended
AddTier ==
  /\ Len(tierConfig) < MaxTiers
  /\ LET last == tierConfig[Len(tierConfig)]
         newTierMaxRank == (IF last.max_rank = Null THEN 50
                            ELSE last.max_rank) + 20
     IN /\ newTierMaxRank <= MaxCutoff
        /\ tierConfig' =
          Append([tierConfig EXCEPT ![Len(tierConfig)].max_rank = newTierMaxRank],
                 [name |-> NextLetter(tierConfig), max_rank |-> Null])
  /\ classified' = NoLookup
  /\ UNCHANGED <<events, uivars, now, event_status, dbvars, resp, procvars>>

\* the tier of an athlete is looked up in the league's configuration
Classify(rank) ==
  /\ classified' = [rank |-> rank, name |-> TierOfRank(tierConfig, rank)]
  /\ classified' # classified
  /\ UNCHANGED <<events, uivars, now, event_status, dbvars, resp, procvars, tierConfig>>

InitTier == Init

NextTier ==
  \/ \E i \in 1..MaxTiers : \E v \in CutoffInputs : SetMaxRank(i, v)
  \/ \E i \in 1..MaxTiers : RemoveTier(i)
  \/ AddTier
  \/ \E r \in RankInputs : Classify(r)

SpecTier == InitTier /\ [][NextTier]_vars

\* C23: the tier returned for a ranked athlete is the first tier of the
\* configuration whose max_rank is null or at least the rank, when there is
\* one; the tier returned for an athlete without ranking entry is the tier
\* whose max_rank is null, when the configuration has one, whatever the
\* cutoffs of the other tiers.
TierIsFirstMatchOrNullTier ==
  classified # NoLookup =>
    LET matches == { i \in DOMAIN tierConfig :
                       tierConfig[i].max_rank = Null
                         \/ tierConfig[i].max_rank >= classified.rank }
    IN IF classified.rank # Null
       THEN matches # {} =>
              \E i \in matches :
                 /\ \A j \in matches : i <= j
                 /\ classified.name = tierConfig[i].name
       ELSE (\E i \in DOMAIN tierConfig : tierConfig[i].max_rank = Null) =>
              \E i \in DOMAIN tierConfig :
                 /\ tierConfig[i].max_rank = Null
                 /\ classified.name = tierConfig[i].name

\* ------------------------------------------------------ get-league-breakdown
\* athletes of one team for one event: one record per climbers row of the
\* snapshot
LgAthletes(roster, history, team, eventId, mult) ==
  LET ids == SeqToSet(ActiveClimberIds(roster, team, EventDate[eventId]))
      captain == CaptainAtEvent(roster, history, team, EventDate[eventId])
      results == ResultsFor(eventId, ids)
      rankOf(c) == IF \E r \in results : r.climber_id = c
                   THEN (CHOOSE r \in results : r.climber_id = c).rank
                   ELSE Null
  IN { [climber_id |-> c, is_captain |-> (c = captain), rank |-> rankOf(c),
        points |-> MathFloorProduct(
                     IF rankOf(c) # Null THEN getPointsForRank40(rankOf(c))
                     ELSE 0,
                     IF c = captain THEN mult ELSE 100)]
       : c \in ids }

RECURSIVE SumPoints(_)
SumPoints(athletes) ==
  IF athletes = {} THEN 0
  ELSE LET a == CHOOSE x \in athletes : TRUE
       IN a.points + SumPoints(athletes \ {a})

\* team_total of one team for one event
LgTeamTotal(roster, history, team, eventId, mult) ==
  SumPoints(LgAthletes(roster, history, team, eventId, mult))

\* C24: for every completed event the score of the team in the leaderboard
\* equals the team total of the event in the team breakdown and in the
\* league breakdown.
ViewsAgreeOnEventScore ==
  \A e \in Events : \A m \in Multipliers :
     event_status[e] = "completed" =>
       /\ LbEventScore(team_roster, captain_history, Team, e, m)
            = TbTeamTotal(team_roster, captain_history, Team, e, m)
       /\ LbEventScore(team_roster, captain_history, Team, e, m)
            = LgTeamTotal(team_roster, captain_history, Team, e, m)

\* C25: in the team breakdown and in the league breakdown of an event the
\* athlete list has exactly one entry for each athlete of the roster as of
\* the event's date; an athlete without result is listed with rank null and
\* 0 points, and the team total is the sum over the athletes with a result.
BreakdownListsEveryAthlete ==
  \A e \in Events : \A m \in Multipliers :
     \A tb \in {TbAthleteScores(team_roster, captain_history, Team, e, m)},
        lg \in {LgAthletes(team_roster, captain_history, Team, e, m)} :
        LET ids == RosterAsOf(team_roster, EventDate[e])
            placed == { r.climber_id : r \in ResultsFor(e, ids) }
        IN /\ { a.climber_id : a \in tb } = ids
           /\ { a.climber_id : a \in lg } = ids
           /\ Cardinality(tb) = Cardinality(ids)
           /\ Cardinality(lg) = Cardinality(ids)
           /\ \A a \in tb :
                 a.climber_id \notin placed =>
                   a.rank = Null /\ a.base_points = 0 /\ a.total_points = 0
           /\ \A a \in lg :
                 a.climber_id \notin placed => a.rank = Null /\ a.points = 0
           /\ TbTeamTotal(team_roster, captain_history, Team, e, m)
                = SumTotalPoints({ a \in tb : a.climber_id \in placed })
           /\ LgTeamTotal(team_roster, captain_history, Team, e, m)
                = SumPoints({ a \in lg : a.climber_id \in placed })

\* at the date of event 2 the roster holds athlete 3, who has no result for
\* the event, and an athlete who scored
UnplacedAthleteOnRoster ==
  /\ 3 \in RosterAsOf(team_roster, EventDate[2])
  /\ ResultsFor(2, {3}) = {}
  /\ TbTeamTotal(team_roster, captain_history, Team, 2, 120) > 0
  /\ \E a \in TbAthleteScores(team_roster, captain_history, Team, 2, 120) :
        a.climber_id = 3 /\ a.rank = Null

\* every entry of old is still in new at its place, with its athlete and its
\* start unchanged, and with its end unchanged once the end is set
RosterEntriesKept(old, new) ==
  /\ Len(new) >= Len(old)
  /\ \A i \in DOMAIN old :
        /\ new[i].team_id = old[i].team_id
        /\ new[i].climber_id = old[i].climber_id
        /\ new[i].added_at = old[i].added_at
        /\ old[i].removed_at # Null => new[i].removed_at = old[i].removed_at

HistoryEntriesKept(old, new) ==
  /\ Len(new) >= Len(old)
  /\ \A i \in DOMAIN old :
        /\ new[i].team_id = old[i].team_id
        /\ new[i].climber_id = old[i].climber_id
        /\ new[i].set_at = old[i].set_at
        /\ old[i].replaced_at # Null => new[i].replaced_at = old[i].replaced_at

\* C26: updateRoster, setCaptain and transfers never delete or reopen a
\* roster or captaincy entry: a removed_at (replaced_at) that is set never
\* changes again and no added_at (set_at) of an existing entry is modified.
EntriesAreNeverRewritten ==
  [][/\ RosterEntriesKept(team_roster, team_roster')
     /\ HistoryEntriesKept(captain_history, captain_history')]_vars

\* an athlete dropped and taken back holds a closed entry and a later open
\* one, next to a captaincy that has been replaced by a transfer
ClosedEntriesStayClosed ==
  /\ \E i, j \in DOMAIN team_roster :
        /\ i < j
        /\ team_roster[i].climber_id = team_roster[j].climber_id
        /\ team_roster[i].removed_at # Null
        /\ team_roster[j].removed_at = Null
  /\ \E h \in DOMAIN captain_history : captain_history[h].replaced_at # Null
  /\ team_transfers # << >>

\* C27: a transfer is offered and committed only for the latest completed
\* event of the league and only while the event that follows it has not
\* started; once the next event has started no transfer with that
\* after_event_id is accepted.
TransferOnlyInOpenWindow ==
  [][(resp' = "ok" /\ team_transfers' # team_transfers) =>
        team_transfers'[Len(team_transfers')].after_event_id
          \in Offered(LoadedEvents(event_status))]_vars

\* C28: after any sequence of updateRoster, setCaptain and transfer
\* operations the athlete flagged is_captain among the open roster entries
\* is the athlete of the open captain_history entry, and one exists exactly
\* when the other does.
CaptainRepresentationsAgree ==
  /\ FlaggedNow = OpenCaptaincyNow
  /\ Cardinality(FlaggedNow) <= 1

\* C29: every accepted transfer leaves the number of athletes on the
\* current roster unchanged: exactly one open entry is closed and exactly
\* one entry is opened.
TransferKeepsRosterSize ==
  [][(resp' = "ok" /\ team_transfers' # team_transfers) =>
        /\ Len(CurrentRoster(team_roster', Team))
             = Len(CurrentRoster(team_roster, Team))
        /\ Cardinality({ i \in DOMAIN team_roster :
                           /\ team_roster[i].removed_at = Null
                           /\ team_roster'[i].removed_at # Null }) = 1
        /\ Len(team_roster') = Len(team_roster) + 1]_vars

\* the entries of new that old does not have
AddedEntries(old, new) == (DOMAIN new) \ (DOMAIN old)

\* the effect of updateRoster(team, R) on the entries old, at the instant t
RosterReplacedBy(old, new, R, t) ==
  LET wanted == SeqIds(R)
      before == SeqIds(CurrentRoster(old, Team))
  IN /\ SeqIds(CurrentRoster(new, Team)) = wanted
     /\ Len(new) >= Len(old)
     /\ \A i \in DOMAIN old :
           /\ new[i].climber_id = old[i].climber_id
           /\ new[i].added_at = old[i].added_at
           /\ old[i].removed_at # Null => new[i].removed_at = old[i].removed_at
           /\ (old[i].removed_at = Null /\ old[i].climber_id \in wanted)
                => new[i].removed_at = Null
           /\ (old[i].removed_at = Null /\ old[i].climber_id \notin wanted)
                => new[i].removed_at = t
     /\ \A i \in AddedEntries(old, new) :
           /\ new[i].climber_id \in wanted \ before
           /\ new[i].added_at = t
           /\ new[i].removed_at = Null
     /\ \A c \in wanted \ before :
           Cardinality({ i \in AddedEntries(old, new) :
                           new[i].climber_id = c }) = 1

\* C30: after updateRoster(team, R) the open entries are exactly the
\* athletes of R: the athletes kept have their open entry and its added_at
\* unchanged, the athletes dropped have theirs closed with removed_at = now,
\* and each new athlete has one new entry with added_at = now.
UpdateRosterReplacesRoster ==
  [][(resp' = "saved" /\ (team_roster' # team_roster \/ resp # "saved")) =>
        RosterReplacedBy(team_roster, team_roster', renderedRoster, now)]_vars

====
